---- MODULE Spec2Model ----
(***************************************************************************)
(* Model of main.py: the movie recommendation assistant.                   *)
(*                                                                         *)
(* Strings are sequences of one-character strings.  Ratings and sentiment  *)
(* polarities are integers in hundredths (760 stands for 7.6, -50 for      *)
(* -0.5).  A missing cell is NaN and an absent string argument is None;    *)
(* an optional rating is <<>> (None) or <<r>>.  The value recommend_movies *)
(* returns is tagged with its Python type; a call that raises gives the    *)
(* outcome ReError.                                                        *)
(***************************************************************************)
EXTENDS FiniteSets, Integers, Sequences, TLC

VARIABLES movies_df, genres, pc, name, genre, mood, rating, recs, line, call, ncalls

vars == <<movies_df, genres, pc, name, genre, mood, rating, recs, line, call, ncalls>>

NaN == <<"NaN">>
None == <<"None">>
NoRating == <<>>
\* the str 'No suitable movie recommendations found.' and a list of pairs
NoRecs == [isstr |-> TRUE, list |-> <<>>, raised |-> FALSE]
List(l) == [isstr |-> FALSE, list |-> l, raised |-> FALSE]
\* the outcome of a call of recommend_movies that raises re.error
ReError == [isstr |-> FALSE, list |-> <<>>, raised |-> TRUE]
\* the outcome of a call of list_genres that raises AttributeError
AttributeError == << <<"AttributeError">> >>

(***************************************************************************)
(* Bounds of the model.                                                    *)
(***************************************************************************)
MaxRows == 3
MaxCalls == 2
MaxTopN == 2

(***************************************************************************)
(* Characters and the str methods the program uses.                        *)
(***************************************************************************)
UpperChars == <<"A","B","C","D","E","F","G","H","I","J","K","L","M",
                "N","O","P","Q","R","S","T","U","V","W","X","Y","Z">>
LowerChars == <<"a","b","c","d","e","f","g","h","i","j","k","l","m",
                "n","o","p","q","r","s","t","u","v","w","x","y","z">>
Digits == <<"0","1","2","3","4","5","6","7","8","9">>
Superscript2 == "^2"   \* the character U+00B2, SUPERSCRIPT TWO

\* the characters of the model in code point order
CodePoints == <<" ", "(", "+", ",", "-", ".">> \o Digits \o UpperChars \o LowerChars
                 \o <<Superscript2>>

Range(s) == {s[i] : i \in 1..Len(s)}

Ord(c) == CHOOSE i \in 1..Len(CodePoints) : CodePoints[i] = c

IsUpper(c) == c \in Range(UpperChars)
IsLower(c) == c \in Range(LowerChars)
IsCased(c) == IsUpper(c) \/ IsLower(c)

\* str.lower and str.upper on one character
LowerChar(c) == IF IsUpper(c) THEN LowerChars[CHOOSE i \in 1..26 : UpperChars[i] = c] ELSE c
UpperChar(c) == IF IsLower(c) THEN UpperChars[CHOOSE i \in 1..26 : LowerChars[i] = c] ELSE c

lower(s) == [i \in 1..Len(s) |-> LowerChar(s[i])]

\* str.title: a cased character is upper-cased when it follows an uncased
\* character (or starts the string) and lower-cased otherwise
title(s) == [i \in 1..Len(s) |->
               IF i = 1 \/ ~IsCased(s[i-1]) THEN UpperChar(s[i]) ELSE LowerChar(s[i])]

\* str.strip: removes leading and trailing whitespace
RECURSIVE lstrip(_)
lstrip(s) == IF s # <<>> /\ Head(s) = " " THEN lstrip(Tail(s)) ELSE s
RECURSIVE rstrip(_)
rstrip(s) == IF s # <<>> /\ s[Len(s)] = " " THEN rstrip(SubSeq(s, 1, Len(s) - 1)) ELSE s
strip(s) == rstrip(lstrip(s))

\* str.isdigit: non-empty and every character has the Unicode digit property,
\* which the superscript digits have
isdigit(s) == s # <<>> /\ \A i \in 1..Len(s) : s[i] \in Range(Digits) \cup {Superscript2}

DigitVal(c) == (CHOOSE i \in 1..10 : Digits[i] = c) - 1

RECURSIVE DecVal(_)
DecVal(s) == IF s = <<>> THEN 0 ELSE 10 * DecVal(SubSeq(s, 1, Len(s) - 1)) + DigitVal(s[Len(s)])

IsDecimal(s) == s # <<>> /\ \A i \in 1..Len(s) : s[i] \in Range(Digits)

\* int(s) on a string that passed isdigit: raises ValueError unless every
\* character is a decimal digit, and returns the value otherwise
int_raises(s) == ~IsDecimal(s)
int(s) == DecVal(s)

\* s is a substring of t
Contains(t, s) == \E i \in 0..(Len(t) - Len(s)) : SubSeq(t, i + 1, i + Len(s)) = s

\* comparison of Python strings: by code point, a proper prefix first
RECURSIVE StrLess(_, _)
StrLess(s, t) ==
  IF t = <<>> THEN FALSE
  ELSE IF s = <<>> THEN TRUE
  ELSE IF Head(s) # Head(t) THEN Ord(Head(s)) < Ord(Head(t))
  ELSE StrLess(Tail(s), Tail(t))

\* str.split(sep) with a non-empty separator
RECURSIVE split(_, _)
split(s, sep) ==
  IF \E i \in 1..(Len(s) - Len(sep) + 1) : SubSeq(s, i, i + Len(sep) - 1) = sep
  THEN LET i == CHOOSE j \in 1..(Len(s) - Len(sep) + 1) :
                   /\ SubSeq(s, j, j + Len(sep) - 1) = sep
                   /\ \A k \in 1..(j - 1) : SubSeq(s, k, k + Len(sep) - 1) # sep
       IN  <<SubSeq(s, 1, i - 1)>> \o split(SubSeq(s, i + Len(sep), Len(s)), sep)
  ELSE <<s>>

\* sorted(S) for a set of strings
RECURSIVE sorted(_)
sorted(S) ==
  IF S = {} THEN <<>>
  ELSE LET m == CHOOSE x \in S : \A y \in S \ {x} : StrLess(x, y)
       IN  <<m>> \o sorted(S \ {m})

(***************************************************************************)
(* TextBlob(text).sentiment.polarity: the mean polarity of the words of    *)
(* the text that the sentiment lexicon knows, 0 when it knows none.        *)
(***************************************************************************)
WordSad == <<"s","a","d">>
WordHappy == <<"h","a","p","p","y">>
Lexicon == {WordSad, WordHappy}
WordPolarity(w) == IF w = WordSad THEN -50 ELSE 80

RECURSIVE SumPolarity(_)
SumPolarity(ws) ==
  IF ws = <<>> THEN 0
  ELSE (IF lower(Head(ws)) \in Lexicon THEN WordPolarity(lower(Head(ws))) ELSE 0)
       + SumPolarity(Tail(ws))

Polarity(text) ==
  LET ws == split(text, <<" ">>)
      n  == Cardinality({i \in 1..Len(ws) : lower(ws[i]) \in Lexicon})
      t  == SumPolarity(ws)
  IN  IF n = 0 THEN 0
      ELSE IF t >= 0 THEN t \div n ELSE -((-t) \div n)

(***************************************************************************)
(* The dataset: rows of imdb_top_1000.csv with the four required columns.  *)
(***************************************************************************)
Drama == <<"D","r","a","m","a">>
Comedy == <<"C","o","m","e","d","y">>
ActionDrama == <<"A","c","t","i","o","n",","," ","D","r","a","m","a">>
SciFi == <<"S","c","i","-","f","i">>
SadStory == <<"A"," ","s","a","d"," ","s","t","o","r","y">>
HappyTale == <<"A"," ","h","a","p","p","y"," ","t","a","l","e">>
PlainStory == <<"A"," ","s","t","o","r","y">>

Row(t, g, o, r) == [Series_Title |-> t, Genre |-> g, Overview |-> o, IMDB_Rating |-> r]

Pool == << Row("A", Drama, SadStory, 800),
           Row("B", Comedy, HappyTale, 700),
           Row("C", Drama, NaN, 900),
           Row("D", ActionDrama, HappyTale, 930),
           Row("E", NaN, PlainStory, 760),
           Row("F", SciFi, PlainStory, 850) >>

\* the rows of Pool with index in S, in Pool order
RECURSIVE PickRows(_, _)
PickRows(S, i) ==
  IF i > Len(Pool) THEN <<>>
  ELSE (IF i \in S THEN <<Pool[i]>> ELSE <<>>) \o PickRows(S, i + 1)

\* Series.str on the Genre column: read_csv gives a column without any string
\* the dtype float64, and the .str accessor then raises AttributeError
str_accessor_raises(df) == \A i \in 1..Len(df) : df[i].Genre = NaN

\* the files load_data reads: at least one row
Datasets == {PickRows(S, 1) : S \in {T \in SUBSET (1..Len(Pool)) : T # {} /\ Cardinality(T) <= MaxRows}}

CommaSpace == <<",", " ">>

(***************************************************************************)
(* list_genres                                                             *)
(***************************************************************************)
list_genres(df) ==
  LET rows  == {i \in 1..Len(df) : df[i].Genre # NaN}
      parts == UNION {Range(split(df[i].Genre, CommaSpace)) : i \in rows}
  IN  IF str_accessor_raises(df) THEN AttributeError
      ELSE sorted({strip(g) : g \in parts})

(***************************************************************************)
(* recommend_movies                                                        *)
(***************************************************************************)
\* re.compile(pat) over the characters of the model: "(" opens a group that
\* nothing closes, and a leading "+" has nothing to repeat; both raise
\* re.error.  (The patterns of the model hold no two adjacent "+".)
regex_raises(pat) ==
  \/ \E i \in 1..Len(pat) : pat[i] = "("
  \/ pat # <<>> /\ pat[1] = "+"

\* the pattern from position i on matches s from position j on: an element
\* is a literal character or ".", which matches any character, and "+"
\* after an element repeats it one or more times; re.IGNORECASE
RECURSIVE MatchHere(_, _, _, _)
MatchHere(pat, i, s, j) ==
  IF i > Len(pat) THEN TRUE
  ELSE LET hit(k) == k <= Len(s) /\ (pat[i] = "." \/ LowerChar(pat[i]) = LowerChar(s[k]))
       IN  IF i < Len(pat) /\ pat[i + 1] = "+"
           THEN \E n \in 1..(Len(s) - j + 1) :
                   /\ \A k \in j..(j + n - 1) : hit(k)
                   /\ MatchHere(pat, i + 2, s, j + n)
           ELSE hit(j) /\ MatchHere(pat, i + 1, s, j + 1)

\* re.search(pat, s, re.IGNORECASE) for a pattern that compiles
RegexSearch(pat, s) == \E j \in 1..(Len(s) + 1) : MatchHere(pat, 1, s, j)

\* Series.str.contains(pat, case=False, na=False): regex=True is the default,
\* so the pattern is compiled first and a malformed one raises re.error
str_contains_raises(pat) == regex_raises(pat)
str_contains(field, pat) == field # NaN /\ RegexSearch(pat, field)

\* truth value of an optional string and of an optional float
TruthyStr(x) == x # None /\ x # <<>>
TruthyNum(x) == x # NoRating /\ x # <<0>>

RECURSIVE SelectRows(_, _, _)
SelectRows(df, g, r) ==
  IF df = <<>> THEN <<>>
  ELSE LET row  == Head(df)
           keep == /\ TruthyStr(g) => str_contains(row.Genre, g)
                   /\ TruthyNum(r) => row.IMDB_Rating >= r[1]
       IN  (IF keep THEN <<row>> ELSE <<>>) \o SelectRows(Tail(df), g, r)

\* the orders sample(frac=1) can produce
Shuffles(rows) ==
  {[i \in 1..Len(rows) |-> rows[p[i]]] :
     p \in {q \in [1..Len(rows) -> 1..Len(rows)] : \A i, j \in 1..Len(rows) : q[i] = q[j] => i = j}}

\* variant of the test of line 76 without the neutral-overview clause
MoodMatch_NoNeutral(m, polarity) ==
  \/ ~TruthyStr(m)
  \/ Polarity(m) * polarity > 0

\* variant of the test of line 76 that also admits under a neutral mood
MoodMatch_EitherNeutral(m, polarity) ==
  \/ ~TruthyStr(m)
  \/ Polarity(m) * polarity >= 0

\* the test of line 76
MoodMatch(m, polarity) ==
  \/ ~TruthyStr(m)
  \/ Polarity(m) * polarity > 0
  \/ polarity = 0

\* the loop of lines 68-80 from row i on
RECURSIVE Iterate(_, _, _, _, _)
Iterate(rows, i, acc, m, top_n) ==
  IF i > Len(rows) THEN acc
  ELSE IF rows[i].Overview = NaN THEN Iterate(rows, i + 1, acc, m, top_n)
  ELSE LET polarity == Polarity(rows[i].Overview)
           acc2 == IF MoodMatch(m, polarity)
                   THEN Append(acc, <<rows[i].Series_Title, polarity>>)
                   ELSE acc
       IN  IF Len(acc2) = top_n THEN acc2 ELSE Iterate(rows, i + 1, acc2, m, top_n)

\* the value returned when the shuffle produced the order shuffled
recommend_movies(shuffled, m, top_n) ==
  LET recommendations == Iterate(shuffled, 1, <<>>, m, top_n)
  IN  IF recommendations # <<>> THEN List(recommendations) ELSE NoRecs

\* the outcomes of a call: line 56 raises when the genre is given and is a
\* malformed pattern; otherwise one value for each order of the shuffle
Recommendations(df, g, m, r, top_n) ==
  IF TruthyStr(g) /\ str_contains_raises(g) THEN {ReError}
  ELSE {recommend_movies(sh, m, top_n) : sh \in Shuffles(SelectRows(df, g, r))}

(***************************************************************************)
(* float(s) for the plain decimal notation [sign] digits [. digits]: it    *)
(* raises ValueError on any other line of the model and returns the value  *)
(* (in hundredths) otherwise.  The lines of the model carry at most two    *)
(* fractional digits.                                                      *)
(***************************************************************************)
AllDigits(s) == \A i \in 1..Len(s) : s[i] \in Range(Digits)

Unsigned(s) == IF s # <<>> /\ Head(s) \in {"+", "-"} THEN Tail(s) ELSE s

IsFloat(s) ==
  LET dots == {i \in 1..Len(s) : s[i] = "."}
  IN  IF dots = {} THEN IsDecimal(s)
      ELSE LET d == CHOOSE i \in dots : TRUE
           IN  /\ Cardinality(dots) = 1
               /\ AllDigits(SubSeq(s, 1, d - 1))
               /\ AllDigits(SubSeq(s, d + 1, Len(s)))
               /\ Len(s) > 1
               /\ Len(s) - d <= 2

float_raises(s) == ~IsFloat(Unsigned(strip(s)))

UnsignedFloat(s) ==
  LET dots == {i \in 1..Len(s) : s[i] = "."}
  IN  IF dots = {} THEN 100 * DecVal(s)
      ELSE LET d  == CHOOSE i \in dots : TRUE
               ip == SubSeq(s, 1, d - 1)
               fp == SubSeq(s, d + 1, Len(s))
           IN  100 * DecVal(ip) + (IF Len(fp) = 1 THEN 10 * DecVal(fp) ELSE DecVal(fp))

float(s) ==
  LET t == strip(s)
  IN  IF t # <<>> /\ Head(t) = "-" THEN 0 - UnsignedFloat(Tail(t))
      ELSE UnsignedFloat(Unsigned(t))

(***************************************************************************)
(* The lines typed at the prompts and the arguments of direct calls.       *)
(***************************************************************************)
Skip == <<"s","k","i","p">>
Yes == <<"y","e","s">>
No == <<"n","o">>

NameLines == { <<"A","l">>, <<>> }

GenreLines ==
  { <<"1">>, <<"2">>, <<"0","1">>, <<"0">>, <<"9">>,
    <<"d","r","a","m","a">>, <<"D","R","A","M","A">>, <<" ","D","r","a","m","a"," ">>,
    <<"c","o","m","e","d","y">>, <<"s","c","i","-","f","i">>, <<"S","c","i","-","f","i">>,
    <<Superscript2>>, <<"a","b","c">>, <<>> }

MoodLines ==
  { <<>>, <<" ">>, <<"h","a","p","p","y">>, <<"s","a","d">>,
    <<"I"," ","a","m"," ","h","e","r","e">> }

RatingLines ==
  { <<"s","k","i","p">>, <<"S","K","I","P">>, <<"8",".","5">>, <<"9",".","5">>,
    <<"7",".","5">>, <<"7",".","6">>, <<" ","9",".","3","0"," ">>, <<"7",".","5","9">>,
    <<"8">>, <<"-","8">>, <<"a","b","c">>, <<"8",".","5",".","1">>, <<>> }

RepeatLines ==
  { <<"y","e","s">>, <<"Y","E","S">>, <<"n","o">>, <<" ","N","o"," ">>,
    <<"m","a","y","b","e">>, <<>> }

GenreArgs ==
  { None, <<>>, Drama, <<"d","r","a","m","a">>, <<"d","r",".","m","a">>,
    <<"d","r","+","a">>, <<"(">>, Comedy, <<"a","c","t","i","o","n">> }

MoodArgs ==
  { None, <<>>, <<"h","a","p","p","y">>, <<"s","a","d">>,
    <<"I"," ","a","m"," ","h","e","r","e">> }

RatingArgs == { NoRating, <<0>>, <<760>>, <<850>>, <<950>> }

TopNArgs == (-1..MaxTopN) \cup {5}

(***************************************************************************)
(* State after the module level code ran: load_data succeeded (line 30)    *)
(* and list_genres was called (line 47).  When it raised, the import       *)
(* failed and nothing else runs; otherwise main() is about to ask the name *)
(* or, for direct calls, the module is imported.                           *)
(***************************************************************************)
NoCall == [genre |-> None, mood |-> None, rating |-> NoRating, top_n |-> 0]

Loaded ==
  /\ movies_df \in Datasets
  /\ genres = IF list_genres(movies_df) = AttributeError THEN <<>>
              ELSE list_genres(movies_df)
  /\ name = None
  /\ genre = None
  /\ mood = None
  /\ rating = NoRating
  /\ recs = NoRecs
  /\ line = <<>>
  /\ call = NoCall
  /\ ncalls = 0

ImportFailed == list_genres(movies_df) = AttributeError

Init == Loaded /\ pc = IF ImportFailed THEN "ImportFailed" ELSE "CollectName"

\* one invocation of recommend_movies by the session
Invoke ==
  /\ recs' \in Recommendations(movies_df, genre', mood', rating', 5)
  /\ call' = [genre |-> genre', mood |-> mood', rating |-> rating', top_n |-> 5]
  /\ ncalls' = ncalls + 1

\* main, lines 181-186, and handle_ai up to the genre prompt, lines 105-111:
\* the loop that prints the catalog uses genre as its variable and leaves
\* the last entry in it
EnterName(l) ==
  /\ pc = "CollectName"
  /\ line' = l
  /\ name' = strip(l)
  /\ genre' = IF genres # <<>> THEN genres[Len(genres)] ELSE genre
  /\ pc' = "CollectGenre"
  /\ UNCHANGED <<movies_df, genres, mood, rating, recs, call, ncalls>>

\* handle_ai, lines 114-123: one turn of the genre loop
EnterGenre(l) ==
  /\ pc = "CollectGenre"
  /\ line' = l
  /\ LET genre_input == strip(l)
     IN  IF isdigit(genre_input) /\ int_raises(genre_input)
         THEN /\ pc' = "Failed"
              /\ UNCHANGED genre
         ELSE IF isdigit(genre_input) /\ 1 <= int(genre_input)
                                      /\ int(genre_input) <= Len(genres)
         THEN /\ genre' = genres[int(genre_input)]
              /\ pc' = "CollectMood"
         ELSE IF title(genre_input) \in Range(genres)
         THEN /\ genre' = title(genre_input)
              /\ pc' = "CollectMood"
         ELSE /\ pc' = "CollectGenre"
              /\ UNCHANGED genre
  /\ UNCHANGED <<movies_df, genres, name, mood, rating, recs, call, ncalls>>

\* handle_ai, lines 126-133
EnterMood(l) ==
  /\ pc = "CollectMood"
  /\ line' = l
  /\ mood' = strip(l)
  /\ pc' = "CollectRating"
  /\ UNCHANGED <<movies_df, genres, name, genre, rating, recs, call, ncalls>>

\* variant of the rating loop with an exclusive upper bound
EnterRating_Exclusive(l) ==
  /\ pc = "CollectRating"
  /\ line' = l
  /\ LET rating_input == strip(l)
     IN  IF lower(rating_input) = Skip
         THEN /\ rating' = NoRating
              /\ pc' = "ShowResults"
         ELSE IF float_raises(rating_input)
         THEN /\ pc' = "CollectRating"
              /\ UNCHANGED rating
         ELSE /\ rating' = <<float(rating_input)>>
              /\ pc' = IF 760 <= float(rating_input) /\ float(rating_input) < 930
                       THEN "ShowResults" ELSE "CollectRating"
  /\ UNCHANGED <<movies_df, genres, name, genre, mood, recs, call, ncalls>>

\* handle_ai, lines 136-149: one turn of the rating loop
EnterRating(l) ==
  /\ pc = "CollectRating"
  /\ line' = l
  /\ LET rating_input == strip(l)
     IN  IF lower(rating_input) = Skip
         THEN /\ rating' = NoRating
              /\ pc' = "ShowResults"
         ELSE IF float_raises(rating_input)
         THEN /\ pc' = "CollectRating"
              /\ UNCHANGED rating
         ELSE /\ rating' = <<float(rating_input)>>
              /\ pc' = IF 760 <= float(rating_input) /\ float(rating_input) <= 930
                       THEN "ShowResults" ELSE "CollectRating"
  /\ UNCHANGED <<movies_df, genres, name, genre, mood, recs, call, ncalls>>

\* handle_ai, lines 152-159
ShowResults ==
  /\ pc = "ShowResults"
  /\ UNCHANGED <<movies_df, genres, name, genre, mood, rating, line>>
  /\ Invoke
  /\ pc' = IF recs'.raised THEN "Failed" ELSE "Repeat"

\* variant of the repeat loop whose 'yes' drops the rating constraint
EnterRepeat_DropsRating(l) ==
  /\ pc = "Repeat"
  /\ line' = l
  /\ UNCHANGED <<movies_df, genres, name, genre, mood, rating>>
  /\ LET action == lower(strip(l))
     IN  IF action = No
         THEN /\ pc' = "End"
              /\ UNCHANGED <<recs, call, ncalls>>
         ELSE IF action = Yes
         THEN /\ ncalls <= MaxCalls
              /\ recs' \in Recommendations(movies_df, genre, mood, NoRating, 5)
              /\ call' = [genre |-> genre, mood |-> mood, rating |-> NoRating, top_n |-> 5]
              /\ ncalls' = ncalls + 1
              /\ pc' = IF recs'.raised THEN "Failed" ELSE "Repeat"
         ELSE /\ pc' = "Repeat"
              /\ UNCHANGED <<recs, call, ncalls>>

\* handle_ai, lines 162-176: one turn of the repeat loop
EnterRepeat(l) ==
  /\ pc = "Repeat"
  /\ line' = l
  /\ UNCHANGED <<movies_df, genres, name, genre, mood, rating>>
  /\ LET action == lower(strip(l))
     IN  IF action = No
         THEN /\ pc' = "End"
              /\ UNCHANGED <<recs, call, ncalls>>
         ELSE IF action = Yes
         THEN /\ ncalls <= MaxCalls
              /\ Invoke
              /\ pc' = IF recs'.raised THEN "Failed" ELSE "Repeat"
         ELSE /\ pc' = "Repeat"
              /\ UNCHANGED <<recs, call, ncalls>>

Next ==
  \/ \E l \in NameLines : EnterName(l)
  \/ \E l \in GenreLines : EnterGenre(l)
  \/ \E l \in MoodLines : EnterMood(l)
  \/ \E l \in RatingLines : EnterRating(l)
  \/ ShowResults
  \/ \E l \in RepeatLines : EnterRepeat(l)

Spec == Init /\ [][Next]_vars

(***************************************************************************)
(* recommend_movies called as a function on a loaded dataset.              *)
(***************************************************************************)
InitFilter == Loaded /\ pc = IF ImportFailed THEN "ImportFailed" ELSE "Imported"

Call(g, m, r, n) ==
  /\ pc = "Imported"
  /\ ncalls = 0
  /\ recs' \in Recommendations(movies_df, g, m, r, n)
  /\ call' = [genre |-> g, mood |-> m, rating |-> r, top_n |-> n]
  /\ ncalls' = 1
  /\ UNCHANGED <<movies_df, genres, pc, name, genre, mood, rating, line>>

NextFilter == \E g \in GenreArgs, m \in MoodArgs, r \in RatingArgs, n \in TopNArgs : Call(g, m, r, n)

SpecFilter == InitFilter /\ [][NextFilter]_vars

(***************************************************************************)
(* The session and direct calls together.                                  *)
(***************************************************************************)
InitAll == Loaded /\ pc \in (IF ImportFailed THEN {"ImportFailed"} ELSE {"CollectName", "Imported"})

NextAll == Next \/ NextFilter

SpecAll == InitAll /\ [][NextAll]_vars

(***************************************************************************)
(* Vocabulary of the properties.                                           *)
(***************************************************************************)
Called == ncalls > 0

\* the row of the dataset with title t (titles are unique in Pool)
RowOf(t) == CHOOSE row \in Range(movies_df) : row.Series_Title = t

Titles(result) == {result.list[i][1] : i \in 1..Len(result.list)}

GenreGiven == call.genre # None /\ call.genre # <<>>
RatingGiven == call.rating # NoRating
MoodGiven == call.mood # None /\ call.mood # <<>>

\* the rows that survive the genre and rating filters of the last call
Survivors == Range(SelectRows(movies_df, call.genre, call.rating))

\* the admission predicate of section 4.4, step 6
Admissible(row) ==
  /\ row.Overview # NaN
  /\ \/ ~MoodGiven
     \/ Polarity(call.mood) * Polarity(row.Overview) > 0
     \/ Polarity(row.Overview) = 0

HappyMood == <<"h","a","p","p","y">>

(***************************************************************************)
(* C1: every record returned by recommend_movies has rating >= min_rating  *)
(* when min_rating is given, and a genre field that contains the queried   *)
(* genre as a case-insensitive substring when genre is given.              *)
(***************************************************************************)
C1_FilterSound ==
  Called =>
    \A t \in Titles(recs) :
       /\ RatingGiven => RowOf(t).IMDB_Rating >= call.rating[1]
       /\ GenreGiven => /\ RowOf(t).Genre # NaN
                        /\ Contains(lower(RowOf(t).Genre), lower(call.genre))

(***************************************************************************)
(* C2: a returned record is a survivor of the genre and rating filters     *)
(* whose overview is non-empty and which passes the mood test (no mood     *)
(* text, or mood polarity * overview polarity > 0, or overview polarity    *)
(* 0); the 3-record scenario with genre Drama and min_rating 7.6 returns   *)
(* only A; and when the result holds fewer than limit records, every       *)
(* survivor that satisfies the predicate is in the result.                 *)
(***************************************************************************)
C2_MoodAdmission ==
  Called =>
    /\ \A i \in 1..Len(recs.list) :
          /\ RowOf(recs.list[i][1]) \in Survivors
          /\ Admissible(RowOf(recs.list[i][1]))
          /\ recs.list[i][2] = Polarity(RowOf(recs.list[i][1]).Overview)
    /\ (movies_df = <<Pool[1], Pool[2], Pool[3]>> /\ call.genre = Drama /\ call.rating = <<760>>)
          => Titles(recs) \subseteq {"A"}
    /\ Len(recs.list) < call.top_n =>
          \A row \in Survivors : Admissible(row) => row.Series_Title \in Titles(recs)

\* a negative overview was rejected under a positive mood although the
\* result is not full, next to an admitted positive one
C2_Witness ==
  /\ Called
  /\ call.mood = HappyMood
  /\ call.top_n = 5
  /\ Pool[1] \in Survivors
  /\ Pool[3] \in Survivors
  /\ Titles(recs) = {"D"}

(***************************************************************************)
(* C3: for every limit >= 0 the result never holds more than limit         *)
(* records, and it holds exactly limit records whenever at least limit     *)
(* surviving records pass the mood test.                                   *)
(***************************************************************************)
C3_UpToLimit ==
  (Called /\ call.top_n >= 0) =>
    /\ Len(recs.list) <= call.top_n
    /\ Cardinality({row \in Survivors : Admissible(row)}) >= call.top_n
          => Len(recs.list) = call.top_n

\* a row passes the genre, rating, non-empty-overview and mood tests of
\* section 4.4 for the arguments of the last call
Passes(row) ==
  /\ GenreGiven => /\ row.Genre # NaN
                   /\ Contains(lower(row.Genre), lower(call.genre))
  /\ RatingGiven => row.IMDB_Rating >= call.rating[1]
  /\ Admissible(row)

\* the two halves of the empty-result rule
C4_Exactly == (recs = NoRecs) <=> (\A row \in Range(movies_df) : ~Passes(row))

C4_Always ==
  /\ recs.isstr \/ recs.list # <<>>
  /\ call.rating = <<950>> => recs = NoRecs

(***************************************************************************)
(* C4: recommend_movies returns the 'No suitable movie recommendations     *)
(* found.' string exactly when no record passes the genre, rating,         *)
(* non-empty-overview and mood tests, and never an empty list; with        *)
(* min_rating 9.5 it returns the string for any genre and mood; the        *)
(* session shows the outcome and goes on to the repeat prompt.             *)
(***************************************************************************)
C4_EmptyResult ==
  /\ [](Called => C4_Exactly /\ C4_Always)
  /\ [][pc = "ShowResults" => pc' = "Repeat"]_vars

\* the last call had a non-empty mood text of polarity 0
NeutralMood == Called /\ MoodGiven /\ Polarity(call.mood) = 0

(***************************************************************************)
(* C5: when a non-empty mood text has polarity 0, every surviving record   *)
(* with a non-empty overview is admitted, whatever its overview polarity.  *)
(***************************************************************************)
C5_EitherNeutral ==
  (NeutralMood /\ Len(recs.list) < call.top_n) =>
     \A row \in Survivors : row.Overview # NaN => row.Series_Title \in Titles(recs)

\* C5 amended: under a non-empty mood text of polarity 0 only records whose
\* overview polarity is 0 are admitted, and all of them are
C5_OverviewNeutral ==
  NeutralMood =>
    /\ \A i \in 1..Len(recs.list) : recs.list[i][2] = 0
    /\ Len(recs.list) < call.top_n =>
          \A row \in Survivors :
             (row.Overview # NaN /\ Polarity(row.Overview) = 0)
                => row.Series_Title \in Titles(recs)

\* a neutral mood kept the neutral overview and dropped the negative one
C5_Witness ==
  /\ NeutralMood
  /\ call.top_n = 5
  /\ Pool[1] \in Survivors
  /\ Pool[6] \in Survivors
  /\ Titles(recs) = {"F"}

\* the effect of one line read at the genre prompt
C6_Step ==
  pc = "CollectGenre" =>
    LET x == strip(line')
    IN  IF IsDecimal(x) /\ 1 <= DecVal(x) /\ DecVal(x) <= Len(genres)
        THEN pc' = "CollectMood" /\ genre' = genres[DecVal(x)]
        ELSE IF \E e \in Range(genres) : lower(e) = lower(x)
        THEN pc' = "CollectMood" /\ genre' \in Range(genres) /\ lower(genre') = lower(x)
        ELSE pc' = "CollectGenre" /\ genre' = genre

(***************************************************************************)
(* C6: at the genre prompt a decimal integer i with 1 <= i <= len(catalog) *)
(* selects the i-th catalog entry, a line equal to a catalog entry when    *)
(* letter case is ignored selects that entry, and every other line leaves  *)
(* the session at the genre prompt with no genre selected; the genre held  *)
(* on leaving the prompt is a member of the catalog.                       *)
(***************************************************************************)
C6_CollectGenre ==
  /\ [][C6_Step]_vars
  /\ [](pc \in {"CollectMood", "CollectRating", "ShowResults", "Repeat", "End"}
          => genre \in Range(genres))

\* the effect of one line read at the rating prompt
C7_Step ==
  pc = "CollectRating" =>
    LET x == strip(line')
    IN  IF lower(x) = Skip
        THEN pc' = "ShowResults" /\ rating' = NoRating
        ELSE IF ~float_raises(x) /\ 760 <= float(x) /\ float(x) <= 930
        THEN pc' = "ShowResults" /\ rating' = <<float(x)>>
        ELSE pc' = "CollectRating"

(***************************************************************************)
(* C7: at the rating prompt the session advances only on 'skip' in any     *)
(* letter case (no rating constraint) or on a number r with                *)
(* 7.6 <= r <= 9.3 (constraint r); every other line leaves it at the       *)
(* rating prompt; recommend_movies is never invoked with a rating outside  *)
(* [7.6, 9.3].                                                             *)
(***************************************************************************)
C7_CollectRating ==
  /\ [][C7_Step]_vars
  /\ [](Called => \/ call.rating = NoRating
                  \/ 760 <= call.rating[1] /\ call.rating[1] <= 930)

\* the boundary 9.3 was accepted and passed to recommend_movies
C7_Witness ==
  /\ pc = "Repeat"
  /\ Called
  /\ call.rating = <<930>>
  /\ genre = Drama

\* the effect of one line read at the repeat prompt
C8_Step ==
  pc = "Repeat" =>
    LET action == lower(strip(line'))
    IN  /\ action = Yes =>
             /\ ncalls' = ncalls + 1
             /\ call' = [genre |-> genre, mood |-> mood, rating |-> rating, top_n |-> 5]
             /\ recs' \in Recommendations(movies_df, genre, mood, rating, 5)
             /\ pc' = "Repeat"
        /\ action = No => pc' = "End" /\ ncalls' = ncalls /\ recs' = recs
        /\ action \notin {Yes, No} => pc' = "Repeat" /\ ncalls' = ncalls /\ recs' = recs
        /\ genre' = genre /\ mood' = mood /\ rating' = rating

(***************************************************************************)
(* C8: at the repeat prompt 'yes' invokes recommend_movies with the genre, *)
(* mood text and rating collected earlier and limit 5 and returns to the   *)
(* prompt, 'no' ends the session, any other line invokes nothing and       *)
(* re-prompts; no repeat step changes the collected genre, mood or rating. *)
(***************************************************************************)
C8_Repeat == [][C8_Step]_vars

\* a second 'yes' re-invoked the filter with a rating constraint
C8_Witness ==
  /\ pc = "Repeat"
  /\ lower(strip(line)) = Yes
  /\ ncalls = 3
  /\ call.rating = <<850>>
  /\ call.mood = HappyMood

(***************************************************************************)
(* C9: for every dataset list_genres returns a catalog that is sorted in   *)
(* ascending order, has no duplicates, and each of whose entries is a      *)
(* substring of some record's genre field; records without a genre         *)
(* contribute nothing.                                                     *)
(***************************************************************************)
C9_Catalog ==
  /\ pc # "ImportFailed"
  /\ \A i, j \in 1..Len(genres) : i < j => StrLess(genres[i], genres[j])
  /\ \A i \in 1..Len(genres) :
        /\ genres[i] # NaN
        /\ \E k \in 1..Len(movies_df) :
              movies_df[k].Genre # NaN /\ Contains(movies_df[k].Genre, genres[i])

\* the steps the session may take
C10_Order ==
  <<pc, pc'>> \in { <<"CollectName", "CollectGenre">>,
                    <<"CollectGenre", "CollectGenre">>, <<"CollectGenre", "CollectMood">>,
                    <<"CollectMood", "CollectRating">>,
                    <<"CollectRating", "CollectRating">>, <<"CollectRating", "ShowResults">>,
                    <<"ShowResults", "Repeat">>,
                    <<"Repeat", "Repeat">>, <<"Repeat", "End">> }

C10_Step ==
  /\ C10_Order
  /\ ncalls' # ncalls => /\ pc \in {"ShowResults", "Repeat"}
                         /\ mood # None
                         /\ call' = [genre |-> genre, mood |-> mood,
                                     rating |-> rating, top_n |-> 5]
  /\ pc' = "End" => pc = "Repeat" /\ lower(strip(line')) = No

(***************************************************************************)
(* C10: the session goes CollectName, CollectGenre, CollectMood,           *)
(* CollectRating, ShowResults, Repeat, End in this order, re-prompting     *)
(* only within CollectGenre, CollectRating and Repeat; recommend_movies    *)
(* is invoked only once genre, mood and rating are collected; End is       *)
(* reached only by 'no' at the repeat prompt; no line makes the session    *)
(* fail or end elsewhere.                                                  *)
(***************************************************************************)
C10_SessionOrder == [][C10_Step]_vars

====
